---- MODULE Spec2Model ----
(***************************************************************************)
(* Model of the ParaBank test framework:                                   *)
(*   - src/src/pages/new_account_page.py: NewAccountPage.calculations,     *)
(*     transfer_funds, create_savings_account, pay_bill;                   *)
(*   - src/src/pages/registration_page.py: RegistrationPage.register_user, *)
(*     _generate_random_username, _save_credentials;                       *)
(*   - src/src/constants/application_constants.py: load_demo_credentials;  *)
(*   - src/conftest.py and src/src/tests/test_api.py: the credentials      *)
(*     fixtures and the session_id fixture;                                *)
(*   - src/src/tests/test_end_to_end.py and src/src/pages/home_page.py:    *)
(*     test_complete_user_journey and the navigation checks.               *)
(*                                                                         *)
(* A text (cell, href, header, file content, title) is a sequence of       *)
(* one-character strings, so that the string operations of the code        *)
(* (replace, isdigit, float, split, "in", json.dump, json.load) are        *)
(* computed character by character.  A row is a sequence of cell texts,    *)
(* the account table a sequence of rows.                                   *)
(*                                                                         *)
(* Spec drives the account overview (calculations, transfer_funds);        *)
(* SpecCreate, SpecBill, SpecApi, SpecCreds and SpecUsername drive one     *)
(* group of calls each, from the inputs that group reads; SpecJourney      *)
(* runs the end-to-end test line by line; SpecConcurrent interleaves the   *)
(* calls of two test cases that each have a page of their own.             *)
(***************************************************************************)
EXTENDS Integers, Sequences, FiniteSets, TLC

VARIABLES
    table,          \* rows of //*[@id="accountTable"]/tbody/tr as the page shows them
    pc,             \* what the driving test has done so far
    all_td_values,  \* the snapshot read by the last calculations call
    calc,           \* outcome of the last calculations call
    xfer,           \* outcome of the last transfer_funds call
    transfers,      \* transfer forms submitted to the bank, in order
    created,        \* savings accounts opened by create_savings_account
    rounding,       \* how the floats round where |sum - total| is 0.01 in decimal
    links,          \* href of each a[href^='activity.htm'] of the overview
    create,         \* outcome of the last create_savings_account call
    payments,       \* bill payment forms sent to the bank, in order
    bill,           \* outcome of the last pay_bill call
    response,       \* the bank's answer to the login POST of test_api.py
    session,        \* outcome of the session_id fixture
    fs,             \* the file at each path the credentials are written to or read from
    saved,          \* arguments and outcome of the last _save_credentials call
    loaded,         \* outcome of the last load of the credentials
    browser,        \* title of the page shown and the user the bank session is of
    reg,            \* outcome of the last register_user call
    journey,        \* test_complete_user_journey: the steps begun and how it ended
    tests,          \* test cases running at the same time, each on its own page
    generated       \* the last _generate_random_username call: the hash and the result

\* The state of the account pages (new_account_page.py).
accountVars == <<table, pc, all_td_values, calc, xfer, transfers, created, rounding>>

\* The activity links and create_savings_account's result.
createVars == <<links, create>>

\* The bill payments and pay_bill's result.
billVars == <<payments, bill>>

\* The login response and the session_id fixture's result (test_api.py).
apiVars == <<response, session>>

\* The credentials file and the calls that write and read it.
credVars == <<fs, saved, loaded>>

\* The browser session, register_user's result and the username generated.
regVars == <<browser, reg, generated>>

\* What the account pages' other methods never touch.
beyondAccount == <<billVars, apiVars, credVars, regVars, journey, tests>>

vars == <<accountVars, createVars, billVars, apiVars, credVars, regVars, journey, tests>>

----------------------------------------------------------------------------
(* Characters and Python's str operations on them.                         *)

NBSP == "nbsp"

DigitChars == {"0", "1", "2", "3", "4", "5", "6", "7", "8", "9"}

DigitValue(c) ==
    CASE c = "0" -> 0 [] c = "1" -> 1 [] c = "2" -> 2 [] c = "3" -> 3
      [] c = "4" -> 4 [] c = "5" -> 5 [] c = "6" -> 6 [] c = "7" -> 7
      [] c = "8" -> 8 [] c = "9" -> 9

\* Python whitespace among the characters of the model (str.strip, float).
SpaceChars == {" ", NBSP}

\* s.replace(ch, '') for a one-character ch.
Replace(s, ch) == SelectSeq(s, LAMBDA c : c # ch)

\* s.isdigit(): non-empty and every character a digit.
IsDigit(s) == Len(s) > 0 /\ \A i \in 1..Len(s) : s[i] \in DigitChars

\* value.replace('$', '').replace(',', '')
Normalize(s) == Replace(Replace(s, "$"), ",")

\* value.replace('$', '').replace(',', '').replace('.', '').isdigit()
LooksNumeric(s) == IsDigit(Replace(Normalize(s), "."))

RECURSIVE Pow10(_)
Pow10(k) == IF k = 0 THEN 1 ELSE 10 * Pow10(k - 1)

RECURSIVE DigitsValue(_)
DigitsValue(s) ==
    IF Len(s) = 0 THEN 0
    ELSE 10 * DigitsValue(SubSeq(s, 1, Len(s) - 1)) + DigitValue(s[Len(s)])

RECURSIVE Strip(_)
Strip(s) ==
    IF Len(s) = 0 THEN s
    ELSE IF s[1] \in SpaceChars THEN Strip(Tail(s))
    ELSE IF s[Len(s)] \in SpaceChars THEN Strip(SubSeq(s, 1, Len(s) - 1))
    ELSE s

\* A decimal number n / 10^e, kept with the fewest fraction digits.
RECURSIVE Dec(_, _)
Dec(n, e) == IF e > 0 /\ n % 10 = 0 THEN Dec(n \div 10, e - 1) ELSE [n |-> n, e |-> e]

Zero == [n |-> 0, e |-> 0]

DecAdd(a, b) ==
    LET e == IF a.e > b.e THEN a.e ELSE b.e
    IN  Dec(a.n * Pow10(e - a.e) + b.n * Pow10(e - b.e), e)

DecNeg(a) == [n |-> 0 - a.n, e |-> a.e]

Abs(x) == IF x < 0 THEN 0 - x ELSE x

\* -1, 0 or 1 as |a| is below, at or above c (all three decimals).
DecAbsCmp(a, c) ==
    LET e == IF a.e > c.e THEN a.e ELSE c.e
        l == Abs(a.n) * Pow10(e - a.e)
        r == c.n * Pow10(e - c.e)
    IN  IF l < r THEN -1 ELSE IF l = r THEN 0 ELSE 1

\* float(s) on the characters of the model: surrounding whitespace is
\* dropped, one sign is allowed, then digits with at most one '.', and at
\* least one digit.  ok = FALSE stands for ValueError.
Float(s) ==
    LET t    == Strip(s)
        neg  == Len(t) > 0 /\ t[1] = "-"
        u    == IF Len(t) > 0 /\ t[1] \in {"-", "+"} THEN Tail(t) ELSE t
        dots == {i \in 1..Len(u) : u[i] = "."}
        dot  == IF dots = {} THEN Len(u) + 1 ELSE CHOOSE i \in dots : TRUE
        ip   == SubSeq(u, 1, dot - 1)
        fp   == SubSeq(u, dot + 1, Len(u))
        good == /\ Cardinality(dots) <= 1
                /\ \A i \in 1..Len(u) : u[i] \in DigitChars \cup {"."}
                /\ Len(ip) + Len(fp) > 0
        mag  == Dec(DigitsValue(ip) * Pow10(Len(fp)) + DigitsValue(fp), Len(fp))
    IN  IF good THEN [ok |-> TRUE, val |-> IF neg THEN DecNeg(mag) ELSE mag]
        ELSE [ok |-> FALSE, val |-> Zero]

----------------------------------------------------------------------------
(* NewAccountPage.calculations, as a function of the rows it reads.        *)

TotalStr == <<"T", "o", "t", "a", "l">>
NbspStr == <<NBSP>>

\* The 0.01 of the assert.
Tolerance == [n |-> 1, e |-> 2]

\* s[:-1]
ButLast(s) == SubSeq(s, 1, Len(s) - 1)

RECURSIVE Sum(_)
Sum(vals) == IF Len(vals) = 0 THEN Zero ELSE DecAdd(Sum(ButLast(vals)), vals[Len(vals)])

\* [item[0] for item in all_td_values if item and item[0] and item[0].isdigit()]
account_ids(rows) ==
    LET sel == SelectSeq(rows, LAMBDA item :
                   Len(item) > 0 /\ Len(item[1]) > 0 /\ IsDigit(item[1]))
    IN  [i \in 1..Len(sel) |-> sel[i][1]]

\* [item[1] for item in all_td_values if len(item) > 1 and item[1] not in ['Total', '\xa0']]
middle_values(rows) ==
    LET sel == SelectSeq(rows, LAMBDA item :
                   Len(item) > 1 /\ item[2] \notin {TotalStr, NbspStr})
    IN  [i \in 1..Len(sel) |-> sel[i][2]]

\* SummedCells with the first value sliced off (middle_values[1:]).
SummedCells_DropsFirst(rows) ==
    SelectSeq(SubSeq(middle_values(rows), 2, Len(middle_values(rows))), LooksNumeric)

\* The values of middle_values[:-1] that pass the isdigit filter: the ones
\* float() is applied to.
SummedCells(rows) == SelectSeq(ButLast(middle_values(rows)), LooksNumeric)

\* float() raises ValueError on one of them.
NumericRaises(rows) ==
    \E i \in 1..Len(SummedCells(rows)) : ~Float(Normalize(SummedCells(rows)[i])).ok

numeric_values(rows) ==
    LET kept == SummedCells(rows)
    IN  [i \in 1..Len(kept) |-> Float(Normalize(kept[i])).val]

\* HasTotal with the row count tested against 0 instead of 1.
HasTotal_AnyRow(rows) == Len(rows) > 0 /\ Len(rows[Len(rows)]) > 1

\* len(all_td_values) > 1 and len(all_td_values[-1]) > 1
HasTotal(rows) == Len(rows) > 1 /\ Len(rows[Len(rows)]) > 1

\* float(all_td_values[-1][1].replace('$', '').replace(',', ''))
expected_total(rows) == Float(Normalize(rows[Len(rows)][2]))

\* BalanceOk with the abs() left out.
BalanceOk_Signed(calculated, expected, roundsBelow) ==
    LET d == DecAdd(calculated, DecNeg(expected))
    IN  d.n < 0 \/ DecAbsCmp(d, Tolerance) < 0 \/ (DecAbsCmp(d, Tolerance) = 0 /\ roundsBelow)

\* abs(calculated_total - expected_total) < 0.01.  The code computes it in
\* binary floating point: when the decimal difference is exactly 0.01 the
\* rounding of the operands decides (abs(3.01 - 3.0) < 0.01 is True,
\* abs(1.01 - 1.0) < 0.01 is False), which roundsBelow stands for.
BalanceOk(calculated, expected, roundsBelow) ==
    LET c == DecAbsCmp(DecAdd(calculated, DecNeg(expected)), Tolerance)
    IN  c < 0 \/ (c = 0 /\ roundsBelow)

Result(outcome, ids, nums, compared) ==
    [outcome |-> outcome, account_ids |-> ids, numeric_values |-> nums,
     compared |-> compared]

NoCall == Result("none", <<>>, <<>>, FALSE)

\* The body of calculations from line 95 on.  outcome is "returned" or the
\* exception that leaves the method; account_ids is the returned list.
calculations(rows, roundsBelow) ==
    IF rows = <<>> THEN Result("returned", <<>>, <<>>, FALSE)
    ELSE IF NumericRaises(rows) THEN Result("ValueError", <<>>, <<>>, FALSE)
    ELSE IF ~HasTotal(rows)
         THEN Result("returned", account_ids(rows), numeric_values(rows), FALSE)
    ELSE IF ~expected_total(rows).ok
         THEN Result("ValueError", <<>>, numeric_values(rows), FALSE)
    ELSE IF BalanceOk(Sum(numeric_values(rows)), expected_total(rows).val, roundsBelow)
         THEN Result("returned", account_ids(rows), numeric_values(rows), TRUE)
    ELSE Result("AssertionError", <<>>, numeric_values(rows), TRUE)

----------------------------------------------------------------------------
(* The account tables the page is started with.                            *)

MaxRows == 3

\* Rows of the overview the journey starts on.
JourneyRows == 2

\* First cells: account numbers, the label of the totals row, a blank cell.
Id12 == <<"1", "2">>
Id7 == <<"7">>
Id34 == <<"3", "4">>
Blank == <<>>

\* Second cells: balances as the bank prints them, and malformed ones.
Bal1 == <<"$", "1", ",", "0", "0", "0", ".", "0", "0">>
Bal2 == <<"$", "2", ",", "0", "0", "0", ".", "0", "0">>
Bal0 == <<"$", "0", ".", "0", "0">>
BalNear == <<"$", "1", ",", "0", "0", "0", ".", "0", "0", "5">>
BalEdge == <<"$", "1", ",", "0", "0", "0", ".", "0", "1">>
BalNeg == <<"-", "$", "1", ",", "0", "0", "0", ".", "0", "0">>
BalDots == <<"1", ".", "2", ".", "3">>
BalNA == <<"N", "/", "A">>

BalanceCells == {Bal1, BalNear, BalEdge, BalNeg, BalDots, BalNA}

Rows ==
    {<<Id12, b>> : b \in BalanceCells}
    \cup {<<Id7, Bal1, Bal1>>, <<Blank, Bal1>>, <<Id7>>, <<>>}
    \cup {<<TotalStr, b, NbspStr>> : b \in {Bal1, Bal2, NbspStr}}

RECURSIVE Tables(_)
Tables(k) ==
    IF k = 0 THEN {<<>>}
    ELSE LET shorter == Tables(k - 1)
         IN  shorter \cup {Append(t, r) : t \in {u \in shorter : Len(u) = k - 1}, r \in Rows}

----------------------------------------------------------------------------
(* NewAccountPage.create_savings_account and transfer_funds.               *)

\* The lists transfer_funds is called with.
IdLists == {<<>>, <<Id12>>, <<Id12, Id7>>, <<Id7, Id12, Id34>>}

\* The row the bank shows for a freshly opened savings account.
NewAccountRow == <<Id34, Bal0, Bal0>>

\* The overview after "Open New Account": the new account appears above
\* the last row, or the page does not show it.
PagesAfterCreate(t) ==
    {t, IF t = <<>> THEN <<NewAccountRow>>
        ELSE Append(ButLast(t), NewAccountRow) \o <<t[Len(t)]>>}

Range(s) == {s[i] : i \in 1..Len(s)}

\* Index of the first occurrence of sep in s, 0 when there is none.
Find(s, sep) ==
    LET hits == {i \in 1..(Len(s) - Len(sep) + 1) : SubSeq(s, i, i + Len(sep) - 1) = sep}
    IN  IF hits = {} THEN 0 ELSE CHOOSE i \in hits : \A j \in hits : i <= j

\* sep in s
Contains(sep, s) == Find(s, sep) # 0

\* s.split(sep), sep not empty
RECURSIVE Split(_, _)
Split(s, sep) ==
    LET i == Find(s, sep)
    IN  IF i = 0 THEN <<s>>
        ELSE <<SubSeq(s, 1, i - 1)>> \o Split(SubSeq(s, i + Len(sep), Len(s)), sep)

IdEq == <<"i", "d", "=">>
ActivityHtm == <<"a", "c", "t", "i", "v", "i", "t", "y", ".", "h", "t", "m">>

\* The href the bank gives the link of account id.
HrefOf(id) == ActivityHtm \o <<"?">> \o IdEq \o id

\* The a[href^='activity.htm'] links of the overview: one per row whose
\* first cell is an account number.
activity_links(t) == [i \in 1..Len(account_ids(t)) |-> HrefOf(account_ids(t)[i])]

\* The activity links of the overview, with or without a link that names
\* no account after them.
JourneyLinks(t) == {activity_links(t), Append(activity_links(t), ActivityHtm)}

MaxLinks == 3

\* hrefs that match a[href^='activity.htm']: of an account, without a query,
\* with an empty id, with a second parameter.
Hrefs ==
    {HrefOf(Id12), HrefOf(Id7), ActivityHtm, HrefOf(<<>>),
     HrefOf(Id34) \o <<"&">> \o IdEq \o Id7}

RECURSIVE LinkLists(_)
LinkLists(k) ==
    IF k = 0 THEN {<<>>}
    ELSE LET shorter == LinkLists(k - 1)
         IN  shorter \cup {Append(l, h) : l \in {u \in shorter : Len(u) = k - 1}, h \in Hrefs}

Created(outcome, last_id) == [outcome |-> outcome, last_id |-> last_id]

NoCreate == Created("none", <<>>)

\* Lines 51-65 of create_savings_account: the wait of line 52 times out
\* when no link shows up; line 59 raises when the links it waited for are
\* gone at line 56; else the id is cut out of the last href.
create_savings_account(activity_links_, waited) ==
    IF ~waited THEN Created("TimeoutError", <<>>)
    ELSE IF activity_links_ = <<>> THEN Created("Exception", <<>>)
    ELSE LET last_link == activity_links_[Len(activity_links_)]
         IN  Created("returned",
                     IF Contains(IdEq, last_link) THEN Split(last_link, IdEq)[2] ELSE <<>>)

Transfer(from_account, to_account) ==
    [amount |-> "1000", fromAccountId |-> from_account, toAccountId |-> to_account]

Xfer(arg, outcome, recoveries, used) ==
    [arg |-> arg, outcome |-> outcome, recoveries |-> recoveries, used |-> used]

\* The decimal difference of sum and total is exactly the tolerance: the
\* comparison of line 122 is decided by the rounding of the float operands.
AtEdge(rows) ==
    /\ rows # <<>> /\ ~NumericRaises(rows) /\ HasTotal(rows) /\ expected_total(rows).ok
    /\ DecAbsCmp(DecAdd(Sum(numeric_values(rows)), DecNeg(expected_total(rows).val)),
                 Tolerance) = 0

\* The rounding is a fixed property of the operands: every call on the same
\* balances rounds alike (a new account of balance 0.00 changes neither the
\* float sum nor the total).  It is left open where it is read.
Roundings(t) == IF \E page \in PagesAfterCreate(t) : AtEdge(page) THEN BOOLEAN ELSE {FALSE}

----------------------------------------------------------------------------
(* data/credentials.json: json.dump and json.load on the text of the file. *)

\* The characters '"', '\' and newline.
DQ == "dq"
BS == "bs"
NL == "nl"

DigitChar(d) == CHOOSE c \in DigitChars : DigitValue(c) = d

\* str(n) for n >= 0
RECURSIVE Digits(_)
Digits(n) == IF n < 10 THEN <<DigitChar(n)>> ELSE Append(Digits(n \div 10), DigitChar(n % 10))

\* A JSON value as json.load returns it: a str, an int, None or a dict
\* (its items in file order).
StrVal(s) == [t |-> "str", s |-> s, n |-> 0, fields |-> <<>>]
NumVal(n) == [t |-> "num", s |-> <<>>, n |-> n, fields |-> <<>>]
NullVal == [t |-> "null", s |-> <<>>, n |-> 0, fields |-> <<>>]
ObjVal(fields) == [t |-> "obj", s |-> <<>>, n |-> 0, fields |-> fields]

\* The characters of a str between the quotes of its JSON text (json.dump
\* escapes '"', '\' and the newline).
RECURSIVE EncodeChars(_)
EncodeChars(s) ==
    IF s = <<>> THEN <<>>
    ELSE (CASE s[1] = DQ -> <<BS, DQ>>
            [] s[1] = BS -> <<BS, BS>>
            [] s[1] = NL -> <<BS, "n">>
            [] OTHER -> <<s[1]>>) \o EncodeChars(Tail(s))

EncodeString(s) == <<DQ>> \o EncodeChars(s) \o <<DQ>>

UsernameKey == <<"u", "s", "e", "r", "n", "a", "m", "e">>
PasswordKey == <<"p", "a", "s", "s", "w", "o", "r", "d">>

\* json.dump({"username": username, "password": password}, f, indent=2)
Dump(username, password) ==
    <<"{", NL, " ", " ">> \o EncodeString(UsernameKey) \o <<":", " ">>
        \o EncodeString(username) \o <<",", NL, " ", " ">>
        \o EncodeString(PasswordKey) \o <<":", " ">> \o EncodeString(password)
        \o <<NL, "}">>

Whitespace == {" ", NL}

Parsed(ok, val, next) == [ok |-> ok, val |-> val, next |-> next]
Failed == Parsed(FALSE, NullVal, 0)

\* The first position from i on that holds no whitespace.
RECURSIVE SkipWs(_, _)
SkipWs(t, i) == IF i <= Len(t) /\ t[i] \in Whitespace THEN SkipWs(t, i + 1) ELSE i

\* The characters of a JSON string whose opening quote is before i.
RECURSIVE ReadChars(_, _)
ReadChars(t, i) ==
    IF i > Len(t) \/ t[i] = NL THEN Failed
    ELSE IF t[i] = DQ THEN Parsed(TRUE, StrVal(<<>>), i + 1)
    ELSE IF t[i] = BS
         THEN IF i + 1 > Len(t) \/ t[i + 1] \notin {DQ, BS, "n"} THEN Failed
              ELSE LET rest == ReadChars(t, i + 2)
                       c == IF t[i + 1] = "n" THEN NL ELSE t[i + 1]
                   IN  IF rest.ok THEN Parsed(TRUE, StrVal(<<c>> \o rest.val.s), rest.next)
                       ELSE Failed
    ELSE LET rest == ReadChars(t, i + 1)
         IN  IF rest.ok THEN Parsed(TRUE, StrVal(<<t[i]>> \o rest.val.s), rest.next)
             ELSE Failed

\* The end of the run of digits that starts at i.
RECURSIVE DigitsEnd(_, _)
DigitsEnd(t, i) == IF i <= Len(t) /\ t[i] \in DigitChars THEN DigitsEnd(t, i + 1) ELSE i

NullText == <<"n", "u", "l", "l">>

\* json.load on the text from position i: a string, a number without sign,
\* fraction or leading zero, null, or an object of such values.
RECURSIVE ParseValue(_, _), ParseMembers(_, _, _)
ParseValue(t, i) ==
    IF i > Len(t) THEN Failed
    ELSE IF t[i] = DQ THEN ReadChars(t, i + 1)
    ELSE IF t[i] \in DigitChars
         THEN LET j == DigitsEnd(t, i)
              IN  IF t[i] = "0" /\ j > i + 1 THEN Failed
                  ELSE Parsed(TRUE, NumVal(DigitsValue(SubSeq(t, i, j - 1))), j)
    ELSE IF i + 3 <= Len(t) /\ SubSeq(t, i, i + 3) = NullText
         THEN Parsed(TRUE, NullVal, i + 4)
    ELSE IF t[i] = "{"
         THEN LET j == SkipWs(t, i + 1)
              IN  IF j <= Len(t) /\ t[j] = "}" THEN Parsed(TRUE, ObjVal(<<>>), j + 1)
                  ELSE ParseMembers(t, j, <<>>)
    ELSE Failed

\* The members of an object from position i on, after those in fields.
ParseMembers(t, i, fields) ==
    IF i > Len(t) \/ t[i] # DQ THEN Failed
    ELSE LET key == ReadChars(t, i + 1)
             colon == SkipWs(t, key.next)
         IN  IF ~key.ok \/ colon > Len(t) \/ t[colon] # ":" THEN Failed
             ELSE LET val == ParseValue(t, SkipWs(t, colon + 1))
                      after == SkipWs(t, val.next)
                      all == Append(fields, [k |-> key.val.s, v |-> val.val])
                  IN  IF ~val.ok \/ after > Len(t) THEN Failed
                      ELSE IF t[after] = "}" THEN Parsed(TRUE, ObjVal(all), after + 1)
                      ELSE IF t[after] = "," THEN ParseMembers(t, SkipWs(t, after + 1), all)
                      ELSE Failed

\* json.load(f): the value of the whole text, or JSONDecodeError.
Load(text) ==
    LET r == ParseValue(text, SkipWs(text, 1))
    IN  IF r.ok /\ SkipWs(text, r.next) = Len(text) + 1 THEN r ELSE Failed

\* credentials.get(key) of a dict: the value of the last item of that key,
\* None without one.
Get(obj, key) ==
    LET hits == {i \in 1..Len(obj.fields) : obj.fields[i].k = key}
    IN  IF hits = {} THEN NullVal
        ELSE obj.fields[CHOOSE i \in hits : \A j \in hits : j <= i].v

----------------------------------------------------------------------------
(* The path of data/credentials.json as each module computes it, and the   *)
(* calls that write and read the file.                                     *)

\* A path is the sequence of its components.
RepoRoot == <<"repo">>
RegistrationPagePy == RepoRoot \o <<"src", "pages", "registration_page.py">>
ApplicationConstantsPy == RepoRoot \o <<"src", "constants", "application_constants.py">>
ConftestPy == RepoRoot \o <<"conftest.py">>
TestApiPy == RepoRoot \o <<"src", "tests", "test_api.py">>

\* os.path.dirname
Dirname(path) == ButLast(path)

\* The file a path with ".." components names.
RECURSIVE Resolve(_)
Resolve(path) ==
    IF path = <<>> THEN <<>>
    ELSE LET before == Resolve(ButLast(path))
         IN  IF path[Len(path)] = ".." THEN ButLast(before)
             ELSE Append(before, path[Len(path)])

DataFile == <<"data", "credentials.json">>

\* registration_page.py lines 130-132
SavePath == Resolve(Dirname(Dirname(Dirname(RegistrationPagePy))) \o DataFile)
\* application_constants.py lines 17-19
DemoPath == Resolve(Dirname(Dirname(Dirname(ApplicationConstantsPy))) \o DataFile)
\* conftest.py line 60
ConftestPath == Resolve(Dirname(ConftestPy) \o DataFile)
\* test_api.py line 18
ApiPath == Resolve(Dirname(TestApiPy) \o <<"..", "..">> \o DataFile)

CredentialPaths == {SavePath, DemoPath, ConftestPath, ApiPath}

\* A file: whether it exists, whether the process may open it, its text.
File(exists, access, text) == [exists |-> exists, access |-> access, text |-> text]
Absent == File(FALSE, TRUE, <<>>)
NoAccess == File(TRUE, FALSE, <<>>)

\* What open(file_path, 'w') and the dump leave in a file that held old.
WriteText_Append(old, text) == old \o text

WriteText(old, text) == text

Saved(count, outcome, username, password) ==
    [count |-> count, outcome |-> outcome, username |-> username, password |-> password]
NeverSaved == Saved(0, "none", <<>>, <<>>)

\* _save_credentials(username, password): the files after the call, and
\* how the call ends.
save_credentials(files, username, password) ==
    LET f == files[SavePath]
    IN  IF f.exists /\ ~f.access THEN [files |-> files, outcome |-> "PermissionError"]
        ELSE [files |-> [files EXCEPT ![SavePath] =
                            File(TRUE, TRUE, WriteText(f.text, Dump(username, password)))],
              outcome |-> "returned"]

Loaded(by, outcome, value) == [by |-> by, outcome |-> outcome, value |-> value]
NeverLoaded == Loaded("none", "none", NullVal)

\* The dict {'username': ..., 'password': ...}
Credentials(username, password) ==
    ObjVal(<<[k |-> UsernameKey, v |-> StrVal(username)],
             [k |-> PasswordKey, v |-> StrVal(password)]>>)

Fallback == Credentials(<<"j", "o", "h", "n">>, <<"d", "e", "m", "o">>)

\* Truthy that takes every value but None.
Truthy_NotNone(v) == v.t # "null"

\* bool(v) of a loaded value
Truthy(v) ==
    CASE v.t = "str" -> v.s # <<>>
      [] v.t = "num" -> v.n # 0
      [] v.t = "null" -> FALSE
      [] v.t = "obj" -> v.fields # <<>>

\* str(v) of a loaded str or int
Str(v) == CASE v.t = "str" -> v.s [] v.t = "num" -> Digits(v.n)

\* load_demo_credentials(): every exception of lines 17-29 (open,
\* json.load, .get of a value that is no dict) is caught at line 30 and
\* leads to the fallback of lines 34-37.
load_demo_credentials(files) ==
    LET f == files[DemoPath]
        r == Load(f.text)
    IN  IF ~f.exists \/ ~f.access \/ ~r.ok \/ r.val.t # "obj"
        THEN Loaded("load_demo_credentials", "returned", Fallback)
        ELSE IF Truthy(Get(r.val, UsernameKey)) /\ Truthy(Get(r.val, PasswordKey))
        THEN Loaded("load_demo_credentials", "returned",
                    Credentials(Str(Get(r.val, UsernameKey)), Str(Get(r.val, PasswordKey))))
        ELSE Loaded("load_demo_credentials", "returned", Fallback)

\* The credentials fixtures of conftest.py and test_api.py: json.load(f) as
\* it is when the file exists, john/demo when it does not.
credentials(by, files, path) ==
    LET f == files[path]
        r == Load(f.text)
    IN  IF ~f.exists THEN Loaded(by, "returned", Fallback)
        ELSE IF ~f.access THEN Loaded(by, "PermissionError", NullVal)
        ELSE IF ~r.ok THEN Loaded(by, "JSONDecodeError", NullVal)
        ELSE Loaded(by, "returned", r.val)

MaxSaves == 2

\* The arguments of _save_credentials.
Usernames == {<<>>, <<"b", "o", "b">>, <<"a", DQ, "b">>, <<"c", BS, NL>>}
Passwords == {<<>>, <<"P", "a", "s", "s", "w", "o", "r", "d", "1", "2", "3">>}

\* The texts of the members "username" and "password" in the files the run
\* starts with; the empty text stands for no member.
UsernameTexts == {<<>>, NullText, EncodeString(<<>>), <<"0">>, <<"7">>, EncodeString(<<"a", "l", "i", "c", "e">>)}
PasswordTexts == {<<>>, NullText, EncodeString(<<>>), EncodeString(<<"s", "3", "c", "r", "e", "t">>)}

Member(key, text) == IF text = <<>> THEN <<>> ELSE <<EncodeString(key) \o <<":">> \o text>>

\* {"username":<u>,"password":<p>} without the members whose text is empty.
ObjText(u, p) ==
    LET members == Member(UsernameKey, u) \o Member(PasswordKey, p)
    IN  <<"{">>
        \o (IF Len(members) = 0 THEN <<>>
            ELSE IF Len(members) = 1 THEN members[1]
            ELSE members[1] \o <<",", " ">> \o members[2])
        \o <<"}">>

FileTexts ==
    {ObjText(u, p) : u \in UsernameTexts, p \in PasswordTexts}
    \cup {<<>>, <<"{">>, NullText, <<"7">>, EncodeString(<<"j", "o", "h", "n">>),
          ObjText(EncodeString(<<"a", "l", "i", "c", "e">>), EncodeString(<<"s", "3", "c", "r", "e", "t">>)) \o <<"}">>}

FileStates == {Absent, NoAccess} \cup {File(TRUE, TRUE, t) : t \in FileTexts}

----------------------------------------------------------------------------
(* RegistrationPage.register_user (src/src/pages/registration_page.py) and *)
(* LoginPage.login.                                                        *)

\* PAGE_TITLES and the titles of the bank's other pages.
AccountsOverviewTitle == <<"P", "a", "r", "a", "B", "a", "n", "k", " ", "|", " ", "A", "c", "c", "o", "u", "n", "t", "s", " ", "O", "v", "e", "r", "v", "i", "e", "w">>
CustomerCreatedTitle == <<"P", "a", "r", "a", "B", "a", "n", "k", " ", "|", " ", "C", "u", "s", "t", "o", "m", "e", "r", " ", "C", "r", "e", "a", "t", "e", "d">>
RegisterTitle == <<"P", "a", "r", "a", "B", "a", "n", "k", " ", "|", " ", "R", "e", "g", "i", "s", "t", "e", "r", " ", "f", "o", "r", " ", "F", "r", "e", "e", " ", "O", "n", "l", "i", "n", "e", " ", "A", "c", "c", "o", "u", "n", "t", " ", "A", "c", "c", "e", "s", "s">>
ErrorTitle == <<"P", "a", "r", "a", "B", "a", "n", "k", " ", "|", " ", "E", "r", "r", "o", "r">>
LoadingTitle == <<"J", "u", "s", "t", " ", "a", " ", "m", "o", "m", "e", "n", "t", ".", ".", ".">>
JustAMoment == <<"J", "u", "s", "t", " ", "a", " ", "m", "o", "m", "e", "n", "t">>

HomeTitle == <<"P", "a", "r", "a", "B", "a", "n", "k", " ", "|", " ", "W", "e", "l", "c", "o", "m", "e", " ", "|", " ", "O", "n", "l", "i", "n", "e", " ", "B", "a", "n", "k", "i", "n", "g">>
AboutUsTitle == <<"P", "a", "r", "a", "B", "a", "n", "k", " ", "|", " ", "A", "b", "o", "u", "t", " ", "U", "s">>
CustomerCareTitle == <<"P", "a", "r", "a", "B", "a", "n", "k", " ", "|", " ", "C", "u", "s", "t", "o", "m", "e", "r", " ", "C", "a", "r", "e">>

\* TEST_DATA_CONSTANTS['DEFAULT_PASSWORD']
DefaultPassword == <<"P", "a", "s", "s", "w", "o", "r", "d", "1", "2", "3">>

words == <<<<"a", "l", "p", "h", "a">>, <<"b", "e", "t", "a">>, <<"g", "a", "m", "m", "a">>,
           <<"d", "e", "l", "t", "a">>, <<"o", "m", "e", "g", "a">>, <<"z", "e", "t", "a">>>>

\* Values of hash(str(self.page)).
HashValues == {0, 5, 1234, 8999, 9000, 123456789, -1, -4}

\* The hash values of the journey's one registration.
JourneyHashes == {5, -1}

\* The hash values _generate_random_username is tried on: every one from
\* -MaxHash to MaxHash, and the ones above.
MaxHash == 9005

Hashes == (-MaxHash..MaxHash) \cup HashValues

AtGmail == <<"@", "g", "m", "a", "i", "l", ".", "c", "o", "m">>

\* generate_random_username with the number taken modulo 10000.
generate_random_username_Mod10000(h) ==
    words[(h % Len(words)) + 1] \o Digits(1000 + (h % 10000)) \o AtGmail

\* _generate_random_username(): Python's % with a positive modulus is never
\* negative, words is indexed from 0.
generate_random_username(h) ==
    words[(h % Len(words)) + 1] \o Digits(1000 + (h % 9000)) \o <<"@", "g", "m", "a", "i", "l", ".", "c", "o", "m">>

Browser(title, user) == [title |-> title, user |-> user]

Login(username, password) == [username |-> username, password |-> password]

\* What is typed into customer.username, customer.password and
\* repeatedPassword.
Form(username, password, confirm) ==
    [username |-> username, password |-> password, confirm |-> confirm]

\* A call of _generate_random_username: hash(str(self.page)) and the result.
Generated(called, h, username) == [called |-> called, hash |-> h, username |-> username]

NotGenerated == Generated(FALSE, 0, <<>>)

Reg(outcome, username, password, form, login, steps) ==
    [outcome |-> outcome, username |-> username, password |-> password,
     form |-> form, login |-> login, steps |-> steps]

NotRegistered == Reg("none", <<>>, <<>>, Form(<<>>, <<>>, <<>>), Login(<<>>, <<>>), <<>>)

\* expect(...).to_have_title(...) left out.
ExpectTitle_Skipped(title) == "returned"

\* Line 118: expect(self.page).to_have_title(PAGE_TITLES['ACCOUNTS_OVERVIEW'])
ExpectTitle(title) == IF title = AccountsOverviewTitle THEN "returned" ELSE "AssertionError"

\* How the bank answers the Register click and the later login, and what
\* the page shows: the account is created or the form is rejected; a
\* "Just a moment..." page is shown first or not; the success message, only
\* the Accounts Overview link, or neither is found; the login lands on the
\* overview or on the error page.
Answers == {"created", "rejected"}
Indicators == {"message", "overview", "none"}
Relogins == {"overview", "error"}

\* Lines 69-82: the form is filled and sent.
FormSteps ==
    <<"fill form", "fill username", "fill password", "fill confirm",
      "click register", "wait networkidle">>

\* Lines 88-110: the title is read, a loading page waited for, and the two
\* indicators are looked for; their absence is printed, not raised.
CheckSteps(title, seen) ==
    <<"wait domcontentloaded", "title">>
    \o (IF Contains(JustAMoment, title) THEN <<"wait networkidle">> ELSE <<>>)
    \o <<"expect success_message">>
    \o (IF seen = "message" THEN <<>> ELSE <<"expect accounts_overview">>)

\* Lines 114-118 after the logout click.
LoginSteps == <<"goto home", "wait networkidle", "login", "expect title">>

\* after_save with the except clause of lines 108-110 left out: the
\* failure of the second expect leaves register_user.
after_save_NeedsIndicator(username, password, answer, title, seen, relogin) ==
    IF seen = "none" /\ answer = "created"
    THEN [reg |-> Reg("AssertionError", username, password,
                      Form(username, password, password), Login(<<>>, <<>>),
                      FormSteps \o <<"save_credentials">> \o CheckSteps(title, seen)),
          browser |-> Browser(title, username)]
    ELSE
    LET form == Form(username, password, password)
        checked == FormSteps \o <<"save_credentials">> \o CheckSteps(title, seen)
    IN  IF answer = "rejected"
        THEN [reg |-> Reg("TimeoutError", username, password, form, Login(<<>>, <<>>),
                          checked \o <<"click logout">>),
              browser |-> Browser(RegisterTitle, <<>>)]
        ELSE LET landed == IF relogin = "overview"
                           THEN Browser(AccountsOverviewTitle, username)
                           ELSE Browser(ErrorTitle, <<>>)
             IN  [reg |-> Reg(ExpectTitle(landed.title), username, password, form,
                              Login(username, password),
                              checked \o <<"click logout">> \o LoginSteps),
                  browser |-> landed]

\* register_user() from line 88 on, for the username and password of lines
\* 65-66, on the page the bank answered with: what the call does and how
\* it ends.  The Log Out link is there only in a session.
after_save(username, password, answer, title, seen, relogin) ==
    LET form == Form(username, password, password)
        checked == FormSteps \o <<"save_credentials">> \o CheckSteps(title, seen)
    IN  IF answer = "rejected"
        THEN [reg |-> Reg("TimeoutError", username, password, form, Login(<<>>, <<>>),
                          checked \o <<"click logout">>),
              browser |-> Browser(RegisterTitle, <<>>)]
        ELSE LET landed == IF relogin = "overview"
                           THEN Browser(AccountsOverviewTitle, username)
                           ELSE Browser(ErrorTitle, <<>>)
             IN  [reg |-> Reg(ExpectTitle(landed.title), username, password, form,
                              Login(username, password),
                              checked \o <<"click logout">> \o LoginSteps),
                  browser |-> landed]

----------------------------------------------------------------------------
(* TestParaBankAPI.session_id (src/src/tests/test_api.py).                 *)

JSessionIdEq == <<"J", "S", "E", "S", "S", "I", "O", "N", "I", "D", "=">>
Semicolon == <<";">>

\* response.headers maps a header name to one string; get() gives None
\* when the header is absent.
Header(present, text) == [present |-> present, text |-> text]
NoHeader == Header(FALSE, <<>>)

Response(ok, set_cookie) == [ok |-> ok, set_cookie |-> set_cookie]

Session(outcome, value) == [outcome |-> outcome, value |-> value]
NoSession == Session("none", <<>>)

\* What "for cookie in cookies" binds cookie to: cookies is a str, so each
\* cookie is one character of it.
Items(text) == [i \in 1..Len(text) |-> <<text[i]>>]

\* Lines 46-51: the first item that contains 'JSESSIONID=' gives
\* cookie.split('JSESSIONID=')[1].split(';')[0]; None when there is none.
jsession_match(cookies) ==
    LET hits == {i \in 1..Len(cookies) : Contains(JSessionIdEq, cookies[i])}
    IN  IF hits = {} THEN [found |-> FALSE, value |-> <<>>]
        ELSE LET first == CHOOSE i \in hits : \A j \in hits : i <= j
             IN  [found |-> TRUE,
                  value |-> Split(Split(cookies[first], JSessionIdEq)[2], Semicolon)[1]]

\* Lines 41-58 of session_id.  None and '' are falsy at lines 45 and 52.
session_id(resp) ==
    IF ~resp.ok THEN Session("AssertionError", <<>>)
    ELSE IF ~resp.set_cookie.present \/ resp.set_cookie.text = <<>>
         THEN Session("Exception: No cookies found", <<>>)
    ELSE LET m == jsession_match(Items(resp.set_cookie.text))
         IN  IF m.found /\ m.value # <<>>
             THEN Session("returned", m.value)
             ELSE Session("Exception: JSESSIONID not found in cookies", <<>>)

MaxParts == 2

\* The parts of a set-cookie header: the session cookie with a value or
\* without one, another cookie, attributes.
CookieParts ==
    {JSessionIdEq \o <<"A", "1">>, JSessionIdEq \o <<"B">>, JSessionIdEq,
     <<"x", "=", "1">>, <<"P", "a", "t", "h", "=", "/">>,
     <<"H", "t", "t", "p", "O", "n", "l", "y">>}

\* The header texts of up to k parts, joined by "; ".
RECURSIVE HeaderTexts(_)
HeaderTexts(k) ==
    IF k = 0 THEN {<<>>}
    ELSE LET shorter == HeaderTexts(k - 1)
         IN  shorter \cup CookieParts
                     \cup {t \o <<";", " ">> \o part : t \in shorter \ {<<>>}, part \in CookieParts}

Responses ==
    {Response(ok, h) : ok \in BOOLEAN,
                       h \in {NoHeader} \cup {Header(TRUE, t) : t \in HeaderTexts(MaxParts)}}

----------------------------------------------------------------------------
(* NewAccountPage.pay_bill.                                                *)

MaxIds == 3

\* The lists pay_bill is called with: every list of up to k account numbers.
RECURSIVE AccountIdLists(_)
AccountIdLists(k) ==
    IF k = 0 THEN {<<>>}
    ELSE LET shorter == AccountIdLists(k - 1)
         IN  shorter \cup {Append(l, id) : l \in {u \in shorter : Len(u) = k - 1},
                                          id \in {Id12, Id7, Id34}}

\* How the phone entry of lines 195-203 goes: the field is visible and is
\* filled, it is not and the number is typed after a Tab, or one of these
\* page operations raises.
PhoneEntries == {"visible", "hidden", "raises"}

\* from_account taken from the end of the list.
from_account_Last(account_ids_) == account_ids_[Len(account_ids_)]

\* Line 184: from_account = account_ids[0]
from_account(account_ids_) == account_ids_[1]

\* The bill payment form as lines 189-211 fill it.
Payment(account, phone) ==
    [name |-> "Electricity Company", street |-> "123 Main St", city |-> "New York",
     state |-> "NY", zipCode |-> "10001",
     phoneNumber |-> IF phone = "visible" THEN "1234567890" ELSE "",
     typed |-> IF phone = "hidden" THEN "1234567890" ELSE "",
     fromAccountId |-> account, amount |-> "500"]

Bill(arg, outcome, steps, sent) ==
    [arg |-> arg, outcome |-> outcome, steps |-> steps, sent |-> sent]

NoBill == Bill(<<>>, "none", <<>>, <<>>)

\* Lines 185-193: the page operations up to the phone entry.
PayeeSteps ==
    <<"click Bill Pay", "fill payee.name", "fill payee.address.street",
      "fill payee.address.city", "fill payee.address.state",
      "fill payee.address.zipCode">>

\* Lines 197-203, and 206 when one of them raises.
PhoneSteps(phone) ==
    CASE phone = "visible" -> <<"is_visible phoneNumber", "fill phoneNumber">>
      [] phone = "hidden" -> <<"is_visible phoneNumber", "press Tab", "type 1234567890">>
      [] phone = "raises" -> <<"is_visible phoneNumber", "screenshot phone_field_error.png">>

\* Lines 210-217.
SendSteps ==
    <<"select fromAccountId", "fill amount", "click Send Payment", "wait_for_load_state">>

\* pay_bill whose except clause takes the screenshot and goes on.
pay_bill_GoesOn(account_ids_, phone) ==
    IF account_ids_ = <<>> THEN Bill(account_ids_, "returned", <<>>, <<>>)
    ELSE Bill(account_ids_, "returned", PayeeSteps \o PhoneSteps(phone) \o SendSteps,
              <<Payment(from_account(account_ids_), phone)>>)

\* pay_bill(account_ids): the page operations it performs, in order, and
\* the forms it sends.
pay_bill(account_ids_, phone) ==
    IF account_ids_ = <<>> THEN Bill(account_ids_, "returned", <<>>, <<>>)
    ELSE IF phone = "raises"
         THEN Bill(account_ids_, "returned", PayeeSteps \o PhoneSteps(phone), <<>>)
    ELSE Bill(account_ids_, "returned", PayeeSteps \o PhoneSteps(phone) \o SendSteps,
              <<Payment(from_account(account_ids_), phone)>>)

\* No method of the account pages has been called yet.
----------------------------------------------------------------------------
(* test_complete_user_journey (test_end_to_end.py).                        *)

\* The calls of the test in the order of its lines; steps holds the ones
\* begun, outcome is "running", "passed" or the exception that ended the
\* test, account_id and account_ids are the test's local variables.
Journey(steps, outcome, account_id, account_ids_) ==
    [steps |-> steps, outcome |-> outcome, account_id |-> account_id,
     account_ids |-> account_ids_]

NotStarted == Journey(<<>>, "none", <<>>, <<>>)

\* Line 60 with ">= 1" for ">= 2".
JourneyCallsTransfer_OneId(account_ids_) == Len(account_ids_) >= 1

\* Line 60: if len(account_ids) >= 2
JourneyCallsTransfer(account_ids_) == Len(account_ids_) >= 2

\* Line 64 with the condition of line 60.
JourneyPaysBill_TwoIds(account_ids_) == Len(account_ids_) >= 2

\* Line 64: if account_ids
JourneyPaysBill(account_ids_) == account_ids_ # <<>>

\* CallerList with the account the transfer was drawn from popped off the
\* list given.
CallerList_Popped(arg, used) == Tail(arg)

\* The list object the test passed to transfer_funds, once the call is
\* back: line 148 binds the local name to a new list and no line calls a
\* mutating method of the list given.
CallerList(arg, used) == arg

----------------------------------------------------------------------------
(* Test cases running at the same time.                                    *)

\* Two test cases; the page fixture of conftest.py is function scoped, so
\* each has a browser context and a page of its own.
TestCases == {"test_a", "test_b"}

\* What a test case holds: the rows its page shows, the local
\* all_td_values of its calculations call, the call's result, and the
\* transfer it submitted.
Test(at, page, snapshot, result, submitted) ==
    [pc |-> at, page |-> page, all_td_values |-> snapshot, calc |-> result,
     transfers |-> submitted]

\* The pages the concurrent test cases are opened on.
ConcurrentPages ==
    {<<>>,
     <<<<Id12, Bal1>>>>,
     <<<<Id12, Bal1>>, <<Id7, Bal1, Bal1>>>>,
     <<<<Id12, Bal1>>, <<Id7, Bal1, Bal1>>, <<TotalStr, Bal2, NbspStr>>>>,
     <<<<Id7, Bal1, Bal1>>, <<Id12, Bal1>>, <<TotalStr, Bal2, NbspStr>>>>,
     <<<<Id12, BalNear>>, <<Id7, Bal1, Bal1>>, <<TotalStr, Bal1, NbspStr>>>>,
     <<<<Id12, BalDots>>, <<Id7, Bal1, Bal1>>, <<TotalStr, Bal1, NbspStr>>>>}

\* Local with the variable kept in one place for every instance, as a
\* class attribute would be.
Local_Shared(test) == "test_a"

\* Where a variable of a call lives: all_td_values, account_ids and the
\* other names of lines 81-120 are locals of the call, and the methods
\* assign no attribute of self and no module global.
Local(test) == test

\* No test cases run at the same time.
NoTests == tests = [test \in TestCases |-> Test("none", <<>>, <<>>, NoCall, <<>>)]

NothingCalled ==
    /\ pc = "start"
    /\ all_td_values = <<>>
    /\ calc = NoCall
    /\ xfer = Xfer(<<>>, "none", 0, <<>>)
    /\ transfers = <<>>
    /\ created = 0
    /\ create = NoCreate
    /\ payments = <<>>
    /\ bill = NoBill
    /\ session = NoSession
    /\ saved = NeverSaved
    /\ loaded = NeverLoaded
    /\ reg = NotRegistered
    /\ generated = NotGenerated
    /\ journey = NotStarted
    /\ browser = Browser(RegisterTitle, <<>>)

\* No overview is shown.
NoOverview ==
    /\ table = <<>>
    /\ rounding = FALSE
    /\ links = <<>>

\* No login POST has been answered.
NoResponse == response = Response(FALSE, NoHeader)

\* No credentials file has been written.
NoFiles == fs = [path \in CredentialPaths |-> Absent]

Init ==
    /\ table \in Tables(MaxRows)
    /\ rounding \in Roundings(table)
    /\ links = activity_links(table)
    /\ NothingCalled
    /\ NoResponse
    /\ NoFiles
    /\ NoTests

\* CalculationsFrame with the totals row popped off the page's table.
CalculationsFrame_PopsRow ==
    /\ table' = ButLast(table)
    /\ UNCHANGED <<xfer, transfers, created, rounding, createVars, beyondAccount>>

\* What calculations leaves alone: it only reads the page (lines 79-93) and
\* builds new lists from the snapshot (lines 99-113); it assigns no
\* attribute of the page object.
CalculationsFrame ==
    UNCHANGED <<table, xfer, transfers, created, rounding, createVars, beyondAccount>>

\* Lines 79-124 of one call.
CalculationsCall ==
    \E waited \in BOOLEAN :
       /\ ~waited => table = <<>>
       /\ IF waited
          THEN /\ all_td_values' = table
               /\ calc' = calculations(table, rounding)
          ELSE /\ calc' = Result("TimeoutError", <<>>, <<>>, FALSE)
               /\ UNCHANGED all_td_values
\* calculations(): line 79 waits for a row of the table (TimeoutError when
\* none shows up), lines 80-93 read the cells, lines 95-124 compute.  With
\* no row in the table the wait times out, unless the rows it saw were
\* removed before they were read.
Calculations ==
    /\ pc = "start"
    /\ CalculationsCall
    /\ pc' = "calculated"
    /\ CalculationsFrame

\* calculations() called once more on the page the first call left.
CalculationsAgain ==
    /\ pc = "calculated"
    /\ CalculationsCall
    /\ pc' = "recalculated"
    /\ CalculationsFrame

\* SubmitTransfer with the two accounts exchanged.
SubmitTransfer_Swapped(arg, ids, recoveries) ==
    /\ transfers' = Append(transfers, Transfer(ids[2], ids[1]))
    /\ xfer' = Xfer(arg, "returned", recoveries, ids)

\* Lines 154-165 of transfer_funds: the form is filled from the first two
\* identifiers and submitted.
SubmitTransfer(arg, ids, recoveries) ==
    /\ transfers' = Append(transfers, Transfer(ids[1], ids[2]))
    /\ xfer' = Xfer(arg, "returned", recoveries, ids)

\* transfer_funds(account_ids) with two identifiers or more: the check of
\* line 140 passes and the form is submitted from the list given.
TransferFundsLong(ids) ==
    /\ SubmitTransfer(ids, ids, 0)
    /\ UNCHANGED <<table, all_td_values, calc, created, createVars>>

\* transfer_funds(account_ids) called on its own with two identifiers or more.
TransferFunds ==
    /\ pc = "start"
    /\ \E ids \in IdLists :
          /\ Len(ids) >= 2
          /\ TransferFundsLong(ids)
    /\ pc' = "transferred"
    /\ UNCHANGED <<rounding, beyondAccount>>

\* Recovered without line 148: the list given by the caller is checked again.
Recovered_KeepsOldList(arg, new_account_ids) ==
    IF Len(arg) < 2
    THEN /\ xfer' = Xfer(arg, "returned", 1, arg)
         /\ UNCHANGED transfers
    ELSE SubmitTransfer(arg, arg, 1)

\* Recovered with "< 1" at line 150: one identifier passes the check and
\* account_ids[1] of line 155 raises IndexError.
Recovered_OffByOne(arg, new_account_ids) ==
    IF Len(new_account_ids) < 1
    THEN /\ xfer' = Xfer(arg, "returned", 1, arg)
         /\ UNCHANGED transfers
    ELSE IF Len(new_account_ids) < 2
    THEN /\ xfer' = Xfer(arg, "IndexError", 1, new_account_ids)
         /\ UNCHANGED transfers
    ELSE SubmitTransfer(arg, new_account_ids, 1)

\* Lines 144-164 of transfer_funds once the fresh snapshot is back: with
\* fewer than two identifiers it returns (line 146), else the new list
\* replaces the one given (line 148) and the form is submitted.
Recovered(arg, new_account_ids) ==
    IF Len(new_account_ids) < 2
    THEN /\ xfer' = Xfer(arg, "returned", 1, arg)
         /\ UNCHANGED transfers
    ELSE SubmitTransfer(arg, new_account_ids, 1)

\* OpenSavingsAccount submitting the "Open New Account" form a second time.
OpenSavingsAccount_Twice(page) ==
    /\ table' = page
    /\ created' = created + 2

\* Lines 31-49 of create_savings_account: the "Open New Account" form is
\* submitted once and the browser goes back to the overview.
OpenSavingsAccount(page) ==
    /\ table' = page
    /\ created' = created + 1

\* transfer_funds(account_ids) with fewer than two identifiers: lines
\* 140-148 open a savings account (create_savings_account raises when the
\* overview shows no activity link) and take a fresh snapshot; an exception
\* of either call leaves transfer_funds.
TransferFundsShort(ids) ==
    \E page \in PagesAfterCreate(table), waited \in BOOLEAN :
       /\ OpenSavingsAccount(page)
       /\ links' = activity_links(page)
       /\ ~waited => links' = <<>>
       /\ create' = create_savings_account(links', waited)
       /\ IF create'.outcome # "returned"
          THEN /\ xfer' = Xfer(ids, create'.outcome, 1, ids)
               /\ UNCHANGED <<all_td_values, calc, transfers>>
          ELSE /\ all_td_values' = page
               /\ calc' = calculations(page, rounding)
               /\ IF calc'.outcome # "returned"
                  THEN /\ xfer' = Xfer(ids, calc'.outcome, 1, ids)
                       /\ UNCHANGED transfers
                  ELSE Recovered(ids, calc'.account_ids)

\* transfer_funds(account_ids) called on its own with a short list.
TransferFundsRecover ==
    /\ pc = "start"
    /\ \E ids \in IdLists :
          /\ Len(ids) < 2
          /\ TransferFundsShort(ids)
    /\ pc' = "transferred"
    /\ UNCHANGED <<rounding, beyondAccount>>

\* create_savings_account() called on its own (test_end_to_end.py line 51);
\* links are the activity links the overview shows once the form is sent.
CreateSavingsAccount ==
    /\ pc = "start"
    /\ \E waited \in BOOLEAN :
          /\ ~waited => links = <<>>
          /\ create' = create_savings_account(links, waited)
    /\ created' = created + 1
    /\ pc' = "created"
    /\ UNCHANGED <<table, all_td_values, calc, xfer, transfers, rounding, links,
                   beyondAccount>>

\* The page with any list of activity links; the account table is not read.
InitCreate ==
    /\ table = <<>>
    /\ rounding = FALSE
    /\ links \in LinkLists(MaxLinks)
    /\ NothingCalled
    /\ NoResponse
    /\ NoFiles
    /\ NoTests

SpecCreate == InitCreate /\ [][CreateSavingsAccount]_vars

\* pay_bill(account_ids) (test_end_to_end.py line 65).
PayBill ==
    /\ pc = "start"
    /\ \E ids \in AccountIdLists(MaxIds), phone \in PhoneEntries :
          /\ bill' = pay_bill(ids, phone)
          /\ payments' = payments \o bill'.sent
    /\ pc' = "paid"
    /\ UNCHANGED <<table, all_td_values, calc, xfer, transfers, created, rounding,
                   createVars, apiVars, tests, credVars, regVars, journey>>

\* An overview with no account table shown; pay_bill reads none.
InitBill ==
    /\ NoOverview
    /\ NothingCalled
    /\ NoResponse
    /\ NoFiles
    /\ NoTests

SpecBill == InitBill /\ [][PayBill]_vars

\* The session_id fixture is set up (test_api.py lines 30-58).
SessionId ==
    /\ pc = "start"
    /\ session' = session_id(response)
    /\ pc' = "session"
    /\ UNCHANGED <<table, all_td_values, calc, xfer, transfers, created, rounding,
                   createVars, billVars, response, tests, credVars, regVars, journey>>

\* The login POST has been answered.
InitApi ==
    /\ NoOverview
    /\ NothingCalled
    /\ response \in Responses
    /\ NoFiles
    /\ NoTests

SpecApi == InitApi /\ [][SessionId]_vars

\* What the calls on the credentials file leave alone.
CredentialsFrame ==
    UNCHANGED <<table, all_td_values, calc, xfer, transfers, created, rounding,
                createVars, billVars, apiVars, tests>>

\* _save_credentials(username, password)
SaveCredentials ==
    /\ pc \in {"start", "saved"}
    /\ saved.count < MaxSaves
    /\ \E username \in Usernames, password \in Passwords :
          LET done == save_credentials(fs, username, password)
          IN  /\ fs' = done.files
              /\ saved' = Saved(saved.count + 1, done.outcome, username, password)
    /\ pc' = "saved"
    /\ UNCHANGED <<loaded, regVars, journey>>
    /\ CredentialsFrame

\* load_demo_credentials()
LoadDemoCredentials ==
    /\ pc \in {"start", "saved"}
    /\ loaded' = load_demo_credentials(fs)
    /\ pc' = "loaded"
    /\ UNCHANGED <<fs, saved, regVars, journey>>
    /\ CredentialsFrame

\* The credentials fixture of conftest.py is set up.
ConftestCredentials ==
    /\ pc \in {"start", "saved"}
    /\ loaded' = credentials("conftest.credentials", fs, ConftestPath)
    /\ pc' = "loaded"
    /\ UNCHANGED <<fs, saved, regVars, journey>>
    /\ CredentialsFrame

\* The credentials fixture of TestParaBankAPI is set up.
ApiCredentials ==
    /\ pc \in {"start", "saved"}
    /\ loaded' = credentials("TestParaBankAPI.credentials", fs, ApiPath)
    /\ pc' = "loaded"
    /\ UNCHANGED <<fs, saved, regVars, journey>>
    /\ CredentialsFrame

\* RegisterUserCall with the username generated again, from another hash,
\* for the save of line 85.
RegisterUserCall_GeneratesTwice(h, answer, loading, seen, relogin) ==
    LET username == generate_random_username(h)
        password == DefaultPassword
        title == IF loading THEN LoadingTitle
                 ELSE IF answer = "created" THEN CustomerCreatedTitle
                 ELSE RegisterTitle
        done == save_credentials(fs, generate_random_username(h + 1), password)
        rest == after_save(username, password, answer, title, seen, relogin)
    IN  /\ answer = "rejected" => seen = "none" /\ relogin = "error"
        /\ generated' = Generated(TRUE, h, username)
        /\ fs' = done.files
        /\ saved' = Saved(saved.count + 1, done.outcome, generate_random_username(h + 1), password)
        /\ IF done.outcome # "returned"
           THEN /\ reg' = Reg(done.outcome, username, password,
                              Form(username, password, password), Login(<<>>, <<>>),
                              FormSteps \o <<"save_credentials">>)
                /\ browser' = Browser(title, IF answer = "created" THEN username
                                             ELSE <<>>)
           ELSE /\ reg' = rest.reg
                /\ browser' = rest.browser

\* register_user() on the registration page (test_end_to_end.py line 38):
\* lines 65-85 fill and send the form and save the credentials, whatever
\* the bank answered; an exception of _save_credentials leaves the method.
RegisterUserCall(h, answer, loading, seen, relogin) ==
    LET username == generate_random_username(h)
        password == DefaultPassword
        title == IF loading THEN LoadingTitle
                 ELSE IF answer = "created" THEN CustomerCreatedTitle
                 ELSE RegisterTitle
        done == save_credentials(fs, username, password)
        rest == after_save(username, password, answer, title, seen, relogin)
    IN  /\ answer = "rejected" => seen = "none" /\ relogin = "error"
        /\ generated' = Generated(TRUE, h, username)
        /\ fs' = done.files
        /\ saved' = Saved(saved.count + 1, done.outcome, username, password)
        /\ IF done.outcome # "returned"
           THEN /\ reg' = Reg(done.outcome, username, password,
                              Form(username, password, password), Login(<<>>, <<>>),
                              FormSteps \o <<"save_credentials">>)
                /\ browser' = Browser(title, IF answer = "created" THEN username
                                             ELSE <<>>)
           ELSE /\ reg' = rest.reg
                /\ browser' = rest.browser

\* register_user() called on its own.
RegisterUser ==
    /\ pc = "start"
    /\ \E h \in HashValues, answer \in Answers, loading \in BOOLEAN,
          seen \in Indicators, relogin \in Relogins :
          RegisterUserCall(h, answer, loading, seen, relogin)
    /\ pc' = "saved"
    /\ UNCHANGED <<loaded, journey>>
    /\ CredentialsFrame

\* Any file, or none, at the path of the credentials.
InitCreds ==
    /\ NoOverview
    /\ NothingCalled
    /\ NoResponse
    /\ fs \in [CredentialPaths -> FileStates]
    /\ NoTests

\* _generate_random_username() called on its own.
GenerateUsername ==
    /\ pc = "start"
    /\ \E h \in Hashes : generated' = Generated(TRUE, h, generate_random_username(h))
    /\ pc' = "generated"
    /\ UNCHANGED <<table, all_td_values, calc, xfer, transfers, created, rounding,
                   createVars, billVars, apiVars, tests, credVars, browser, reg, journey>>

\* The registration page is open; nothing has been generated.
InitUsername ==
    /\ NoOverview
    /\ NothingCalled
    /\ NoResponse
    /\ NoFiles
    /\ NoTests

SpecUsername == InitUsername /\ [][GenerateUsername]_vars

NextCreds ==
    RegisterUser \/ SaveCredentials \/ LoadDemoCredentials \/ ConftestCredentials \/ ApiCredentials

SpecCreds == InitCreds /\ [][NextCreds]_vars

\* A call of the test is over: an exception ends the test, else the next
\* line runs.
Ran(step, outcome, next, account_id, account_ids_) ==
    /\ journey' = Journey(Append(journey.steps, step),
                          IF outcome # "returned" THEN outcome
                          ELSE IF next = "passed" THEN "passed" ELSE "running",
                          account_id, account_ids_)
    /\ pc' = IF outcome = "returned" THEN next ELSE "failed"

\* The condition of an if statement is false: its call is left out.
Skipped(next) ==
    /\ journey' = [journey EXCEPT !.outcome = IF next = "passed" THEN "passed" ELSE "running"]
    /\ pc' = next

\* expect(page).to_have_title(expected)
ExpectTitleOf(title, expected) == IF title = expected THEN "returned" ELSE "AssertionError"

\* Lines 29-35: the home page is opened and its title checked, then the
\* registration page is opened.
JourneyHome ==
    /\ pc = "start"
    /\ \E title \in {HomeTitle, ErrorTitle} :
          /\ browser' = Browser(IF title = HomeTitle THEN RegisterTitle ELSE title, <<>>)
          /\ Ran("home", ExpectTitleOf(title, HomeTitle), "register_user", <<>>, <<>>)
    /\ UNCHANGED <<table, all_td_values, calc, xfer, transfers, created, rounding,
                   createVars, billVars, apiVars, tests, credVars, reg, generated>>

\* Line 38: registration_page.register_user()
JourneyRegister ==
    /\ pc = "register_user"
    /\ \E h \in JourneyHashes, answer \in Answers, loading \in BOOLEAN,
          seen \in Indicators, relogin \in Relogins :
          /\ RegisterUserCall(h, answer, loading, seen, relogin)
          /\ Ran("register_user", reg'.outcome, "expect overview", <<>>, <<>>)
    /\ UNCHANGED loaded
    /\ CredentialsFrame

\* Line 42: expect(page).to_have_title(PAGE_TITLES['ACCOUNTS_OVERVIEW'])
JourneyExpectOverview ==
    /\ pc = "expect overview"
    /\ Ran("expect overview", ExpectTitleOf(browser.title, AccountsOverviewTitle),
           "verify_homescreen_menu", <<>>, <<>>)
    /\ UNCHANGED <<table, all_td_values, calc, xfer, transfers, created, rounding,
                   createVars, billVars, apiVars, tests, credVars, regVars>>

\* A navigation check of home_page.py: the link is clicked and the title
\* of the page it leads to is checked.
NavigationCheck(method, expected, next) ==
    /\ \E title \in {expected, ErrorTitle} :
          /\ browser' = Browser(title, browser.user)
          /\ Ran(method, ExpectTitleOf(title, expected), next, <<>>, <<>>)
    /\ UNCHANGED <<table, all_td_values, calc, xfer, transfers, created, rounding,
                   createVars, billVars, apiVars, tests, credVars, reg, generated>>

\* Lines 46-48.
JourneyHomescreenMenu ==
    /\ pc = "verify_homescreen_menu"
    /\ NavigationCheck("verify_homescreen_menu", HomeTitle, "verify_emp_screen")

JourneyEmpScreen ==
    /\ pc = "verify_emp_screen"
    /\ NavigationCheck("verify_emp_screen", AboutUsTitle, "verify_customer_screen")

JourneyCustomerScreen ==
    /\ pc = "verify_customer_screen"
    /\ NavigationCheck("verify_customer_screen", CustomerCareTitle, "create_savings_account")

\* Lines 51-53: account_id = create_savings_account(); assert account_id
JourneyCreate ==
    /\ pc = "create_savings_account"
    /\ \E page \in PagesAfterCreate(table), waited \in BOOLEAN :
          /\ OpenSavingsAccount(page)
          /\ links' \in JourneyLinks(page)
          /\ ~waited => links' = <<>>
          /\ create' = create_savings_account(links', waited)
          /\ Ran("create_savings_account",
                 IF create'.outcome # "returned" THEN create'.outcome
                 ELSE IF create'.last_id = <<>> THEN "AssertionError" ELSE "returned",
                 "calculations", create'.last_id, <<>>)
    /\ UNCHANGED <<all_td_values, calc, xfer, transfers, rounding,
                   billVars, apiVars, tests, credVars, regVars>>

\* Lines 56-57: account_ids = calculations(); assert len(account_ids) > 0
JourneyCalculations ==
    /\ pc = "calculations"
    /\ CalculationsCall
    /\ Ran("calculations",
           IF calc'.outcome # "returned" THEN calc'.outcome
           ELSE IF Len(calc'.account_ids) > 0 THEN "returned" ELSE "AssertionError",
           "transfer_funds", journey.account_id, calc'.account_ids)
    /\ UNCHANGED <<table, xfer, transfers, created, rounding,
                   createVars, billVars, apiVars, tests, credVars, regVars>>

\* Lines 60-61: transfer_funds(account_ids) when there are two accounts.
JourneyTransfer ==
    /\ pc = "transfer_funds"
    /\ IF JourneyCallsTransfer(journey.account_ids)
       THEN /\ IF Len(journey.account_ids) >= 2
               THEN TransferFundsLong(journey.account_ids)
               ELSE TransferFundsShort(journey.account_ids)
            /\ Ran("transfer_funds", xfer'.outcome, "pay_bill", journey.account_id,
                   CallerList(journey.account_ids, xfer'.used))
       ELSE /\ Skipped("pay_bill")
            /\ UNCHANGED <<table, all_td_values, calc, xfer, transfers, created, createVars>>
    /\ UNCHANGED <<rounding, billVars, apiVars, tests, credVars, regVars>>

\* Lines 64-65: pay_bill(account_ids) when there is an account.
JourneyPayBill ==
    /\ pc = "pay_bill"
    /\ IF JourneyPaysBill(journey.account_ids)
       THEN \E phone \in PhoneEntries :
               /\ bill' = pay_bill(journey.account_ids, phone)
               /\ payments' = payments \o bill'.sent
               /\ Ran("pay_bill", bill'.outcome, "passed", journey.account_id,
                      journey.account_ids)
       ELSE /\ Skipped("passed")
            /\ UNCHANGED billVars
    /\ UNCHANGED <<table, all_td_values, calc, xfer, transfers, created, rounding,
                   createVars, apiVars, tests, credVars, regVars>>

\* The registration page is open on a bank that shows the new customer any
\* overview; no credentials file has been written yet.
InitJourney ==
    /\ table \in Tables(JourneyRows)
    /\ rounding \in Roundings(table)
    /\ links = <<>>
    /\ NothingCalled
    /\ NoResponse
    /\ NoFiles
    /\ NoTests

NextJourney ==
    \/ JourneyHome \/ JourneyRegister \/ JourneyExpectOverview
    \/ JourneyHomescreenMenu \/ JourneyEmpScreen \/ JourneyCustomerScreen
    \/ JourneyCreate \/ JourneyCalculations \/ JourneyTransfer \/ JourneyPayBill

SpecJourney == InitJourney /\ [][NextJourney]_vars

\* Lines 79-93 of calculations in a test case: the wait for a row times out
\* on a page without rows, else the cells are read into all_td_values.
ConcurrentRead(test) ==
    /\ tests[test].pc = "start"
    /\ tests' = IF tests[test].page = <<>>
                THEN [tests EXCEPT ![test].pc = "failed",
                                   ![test].calc = Result("TimeoutError", <<>>, <<>>, FALSE)]
                ELSE [tests EXCEPT ![Local(test)].all_td_values = tests[test].page,
                                   ![test].pc = "read"]

\* Lines 95-124 of calculations in a test case.
ConcurrentCompute(test) ==
    /\ tests[test].pc = "read"
    /\ LET result == calculations(tests[Local(test)].all_td_values, rounding)
       IN  tests' = [tests EXCEPT ![test].calc = result,
                                  ![test].pc = IF result.outcome = "returned"
                                               THEN "calculated" ELSE "failed"]

\* transfer_funds(account_ids) in a test case, with the list its
\* calculations call returned: lines 154-165 with two identifiers or more.
ConcurrentTransfer(test) ==
    /\ tests[test].pc = "calculated"
    /\ LET ids == tests[Local(test)].calc.account_ids
       IN  /\ Len(ids) >= 2
           /\ tests' = [tests EXCEPT ![test].transfers = <<Transfer(ids[1], ids[2])>>,
                                     ![test].pc = "transferred"]

\* A step of a test case touches nothing but the test cases' own state.
ConcurrentFrame ==
    UNCHANGED <<accountVars, createVars, billVars, apiVars, credVars, regVars, journey>>

ConcurrentReads == (\E test \in TestCases : ConcurrentRead(test)) /\ ConcurrentFrame

ConcurrentComputes == (\E test \in TestCases : ConcurrentCompute(test)) /\ ConcurrentFrame

ConcurrentTransfers == (\E test \in TestCases : ConcurrentTransfer(test)) /\ ConcurrentFrame

\* Each test case has opened its own page.
InitConcurrent ==
    /\ NoOverview
    /\ NothingCalled
    /\ NoResponse
    /\ NoFiles
    /\ \E pages \in [TestCases -> ConcurrentPages] :
          tests = [test \in TestCases |-> Test("start", pages[test], <<>>, NoCall, <<>>)]

NextConcurrent == ConcurrentReads \/ ConcurrentComputes \/ ConcurrentTransfers

SpecConcurrent == InitConcurrent /\ [][NextConcurrent]_vars

Next == Calculations \/ CalculationsAgain \/ TransferFunds \/ TransferFundsRecover

Spec == Init /\ [][Next]_vars

----------------------------------------------------------------------------
(* Vocabulary of the properties.                                           *)

\* A calculations call has read a snapshot (it got past the wait).
SnapshotTaken == calc.outcome \notin {"none", "TimeoutError"}

\* calculations was called on its own, not from inside transfer_funds.
DirectCall == pc = "calculated" /\ SnapshotTaken

LastRow(rows) == rows[Len(rows)]

\* The rows above the totals row; a snapshot of one row has no totals row.
DataRows(rows) == IF Len(rows) > 1 THEN ButLast(rows) ELSE rows

\* The cell is a decimal once '$' and ',' are removed.
IsDecimal(cell) == Float(Normalize(cell)).ok
DecimalOf(cell) == Float(Normalize(cell)).val

\* Sum of the balance cells of the rows that are decimals.
RECURSIVE ParseableSum(_)
ParseableSum(rows) ==
    IF Len(rows) = 0 THEN Zero
    ELSE LET r == LastRow(rows)
             rest == ParseableSum(ButLast(rows))
         IN  IF Len(r) > 1 /\ IsDecimal(r[2]) THEN DecAdd(rest, DecimalOf(r[2])) ELSE rest

\* The first cells that are non-empty digit strings, in row order.
RECURSIVE DigitFirstCells(_)
DigitFirstCells(rows) ==
    IF Len(rows) = 0 THEN <<>>
    ELSE LET r == rows[1]
             rest == DigitFirstCells(Tail(rows))
         IN  IF Len(r) > 0 /\ r[1] # <<>> /\ \A i \in 1..Len(r[1]) : r[1][i] \in DigitChars
             THEN <<r[1]>> \o rest ELSE rest

\* The snapshot has a totals row whose balance cell is a decimal.
NumericTotal(rows) == Len(rows) > 1 /\ Len(LastRow(rows)) > 1 /\ IsDecimal(LastRow(rows)[2])

----------------------------------------------------------------------------
(* C1: whenever the totals row of a snapshot of more than one row is a     *)
(* decimal equal to the sum of the data-row balance cells that are         *)
(* decimals, calculations passes the balance check and returns the         *)
(* identifier list.                                                        *)
C1_ExactTotalPasses ==
    (/\ DirectCall
     /\ NumericTotal(all_td_values)
     /\ DecimalOf(LastRow(all_td_values)[2]) = ParseableSum(ButLast(all_td_values)))
    => calc.outcome = "returned"

----------------------------------------------------------------------------
(* C2: on a snapshot that passes the balance check, changing one data-row  *)
(* balance cell by more than 0.01, the totals row held fixed, makes the    *)
(* check fail.                                                             *)

BalNeg2 == <<"-", "$", "2", ",", "0", "0", "0", ".", "0", "0">>
BalLow == <<"$", "9", "9", "9", ".", "9", "9", "4">>

\* The texts a balance cell is changed to.
PerturbCells == BalanceCells \cup {Bal2, Bal0, BalNeg2, BalLow}

\* |a - b| > 0.01
MoreThanTolerance(a, b) == DecAbsCmp(DecAdd(a, DecNeg(b)), Tolerance) > 0

Perturb(rows, i, cell) == [rows EXCEPT ![i][2] = cell]

C2_PerturbedCellFails ==
    (DirectCall /\ calc.outcome = "returned" /\ calc.compared)
    => \A i \in 1..(Len(all_td_values) - 1), cell \in PerturbCells :
          (/\ Len(all_td_values[i]) > 1
           /\ IsDecimal(all_td_values[i][2])
           /\ IsDecimal(cell)
           /\ MoreThanTolerance(DecimalOf(cell), DecimalOf(all_td_values[i][2])))
          => \A roundsBelow \in BOOLEAN :
                calculations(Perturb(all_td_values, i, cell), roundsBelow).outcome
                    = "AssertionError"

----------------------------------------------------------------------------
(* C3 as stated: when the sum of the parsed balances and the totals row    *)
(* differ by 0.01 or more, calculations raises no error and still returns  *)
(* the identifier list.                                                    *)

\* The sum the call computed and the total it compared it with.
ComputedSum == Sum(calc.numeric_values)
ComparedTotal == DecimalOf(LastRow(all_td_values)[2])

----------------------------------------------------------------------------
(* C4: a data-row balance cell that is no decimal after '$' and ',' are    *)
(* removed is left out of the sum and never makes calculations raise a     *)
(* conversion error.  (A ValueError of the totals row's cell is C5's.)     *)
C4_MalformedCellNeverRaises ==
    (/\ DirectCall
     /\ Len(all_td_values) > 1 /\ Len(LastRow(all_td_values)) > 1
            => IsDecimal(LastRow(all_td_values)[2]))
    => calc.outcome # "ValueError"

----------------------------------------------------------------------------
(* C5: with more than one row and a last row whose second cell is no       *)
(* decimal after normalization, calculations makes no comparison and       *)
(* returns the identifier list without raising.                            *)
C5_NonNumericTotalSkipsCheck ==
    (/\ DirectCall
     /\ Len(all_td_values) > 1
     /\ Len(LastRow(all_td_values)) > 1
     /\ ~IsDecimal(LastRow(all_td_values)[2]))
    => calc.outcome = "returned" /\ ~calc.compared

----------------------------------------------------------------------------
(* C6: for the empty snapshot and for every snapshot of one row,           *)
(* calculations makes no sum/total comparison and reports no mismatch; for *)
(* the empty snapshot it returns the empty identifier list.                *)
C6_NoCheckBelowTwoRows ==
    (SnapshotTaken /\ Len(all_td_values) <= 1)
    => /\ ~calc.compared
       /\ calc.outcome # "AssertionError"
       /\ all_td_values = <<>> => calc.outcome = "returned" /\ calc.account_ids = <<>>

C6_Witness ==
    /\ DirectCall
    /\ Len(all_td_values) = 1
    /\ Len(all_td_values[1]) > 1
    /\ IsDecimal(all_td_values[1][2])
    /\ calc.outcome = "returned"

----------------------------------------------------------------------------
(* C7: in a snapshot of more than one row the last row contributes no      *)
(* entry to the returned identifier list, whatever its first cell.         *)
C7_TotalsRowNotListed ==
    (DirectCall /\ calc.outcome = "returned" /\ Len(all_td_values) > 1)
    => calc.account_ids = DigitFirstCells(ButLast(all_td_values))

----------------------------------------------------------------------------
(* C8: the returned identifier list is the subsequence, in row order, of   *)
(* the data rows' first cells that are non-empty digit strings.            *)
C8_IdsOfDataRowsInOrder ==
    (DirectCall /\ calc.outcome = "returned")
    => calc.account_ids = DigitFirstCells(DataRows(all_td_values))

----------------------------------------------------------------------------
(* C9: the one row of a single-row snapshot is a data row: its all-digit   *)
(* identifier is returned and its decimal balance cell is in the computed  *)
(* list of balances.                                                       *)
C9_SingleRowIsDataRow ==
    (DirectCall /\ calc.outcome = "returned" /\ Len(all_td_values) = 1)
    => LET row == all_td_values[1]
       IN  /\ calc.account_ids = DigitFirstCells(<<row>>)
           /\ Len(row) > 1 /\ IsDecimal(row[2])
                  => calc.numeric_values = <<DecimalOf(row[2])>>

----------------------------------------------------------------------------
(* C10: given two identifiers or more, transfer_funds submits exactly one  *)
(* transfer, of amount 1000, from account_ids[0] to account_ids[1].        *)
C10_TransfersFirstToSecond ==
    (xfer.outcome # "none" /\ Len(xfer.arg) >= 2)
    => /\ xfer.outcome = "returned"
       /\ Len(transfers) = 1
       /\ transfers[1].amount = "1000"
       /\ transfers[1].fromAccountId = xfer.arg[1]
       /\ transfers[1].toAccountId = xfer.arg[2]

C10_Witness ==
    /\ pc = "transferred"
    /\ Len(xfer.arg) > 2
    /\ xfer.arg[1] # xfer.arg[2]
    /\ Len(transfers) = 1

----------------------------------------------------------------------------
(* Vocabulary of the transfer_funds properties.                            *)

\* transfer_funds was called with fewer than two identifiers and is over.
RecoveryCall == xfer.outcome # "none" /\ Len(xfer.arg) < 2

\* The fresh snapshot of the recovery came back with an identifier list.
RecoveredList == RecoveryCall /\ calc.outcome = "returned"

----------------------------------------------------------------------------
(* C11: when transfer_funds is given fewer than two identifiers and the    *)
(* fresh snapshot taken after create_savings_account returns two or more,  *)
(* exactly one transfer is submitted, of amount 1000, from the first to    *)
(* the second identifier of the recovered list.                            *)
C11_TransfersWithRecoveredIds ==
    (RecoveredList /\ Len(calc.account_ids) >= 2)
    => /\ xfer.outcome = "returned"
       /\ transfers = <<Transfer(calc.account_ids[1], calc.account_ids[2])>>

C11_Witness ==
    /\ RecoveredList
    /\ Len(xfer.arg) = 1
    /\ Len(calc.account_ids) > 2
    /\ calc.account_ids[1] # calc.account_ids[2]
    /\ calc.account_ids[2] # xfer.arg[1]
    /\ Len(transfers) = 1

----------------------------------------------------------------------------
(* C12: when transfer_funds is given fewer than two identifiers and the    *)
(* fresh snapshot returns fewer than two again, transfer_funds returns     *)
(* and no transfer form has been submitted; no transfer is submitted       *)
(* either when the recovery ends with an exception.                        *)
C12_NoTransferBelowTwoIds ==
    /\ (RecoveredList /\ Len(calc.account_ids) < 2)
          => xfer.outcome = "returned" /\ xfer.used = xfer.arg /\ transfers = <<>>
    /\ (RecoveryCall /\ calc.outcome # "returned") => transfers = <<>>

C12_Witness ==
    /\ RecoveredList
    /\ xfer.arg = <<>>
    /\ Len(calc.account_ids) = 1
    /\ created = 1
    /\ xfer.outcome = "returned"

----------------------------------------------------------------------------
(* C13: in one transfer_funds call the "Open New Account" form is          *)
(* submitted exactly once when the list given has fewer than two           *)
(* identifiers and never when it has two or more, and the fresh snapshot   *)
(* is taken at most once; one step of the call never opens two accounts.   *)
C13_RecoveryRunsOnce ==
    /\ xfer.outcome # "none"
          => /\ created = (IF Len(xfer.arg) < 2 THEN 1 ELSE 0)
             /\ xfer.recoveries = created
             /\ Len(xfer.arg) >= 2 => calc = NoCall /\ all_td_values = <<>>
    /\ xfer.outcome = "none" => created = 0

C13_Witness ==
    /\ RecoveredList
    /\ Len(calc.account_ids) < 2
    /\ created = 1
    /\ table # <<>>
    /\ all_td_values = table

----------------------------------------------------------------------------
----------------------------------------------------------------------------
(* C16: whenever create_savings_account returns normally the id it returns *)
(* is a non-empty string, the text after "id=" of the last activity link;  *)
(* with no activity link it raises.                                        *)
C16_ReturnsNonEmptyId ==
    /\ (pc = "created" /\ create.outcome = "returned")
          => /\ create.last_id # <<>>
             /\ HrefOf(create.last_id) = links[Len(links)]
    /\ (pc = "created" /\ links = <<>>) => create.outcome # "returned"

----------------------------------------------------------------------------
(* C20: given a non-empty list and a phone entry that does not raise,      *)
(* pay_bill sends exactly one payment form, of amount 500, from            *)
(* account_ids[0]; given the empty list it returns without any page        *)
(* operation.                                                              *)
C20_PaysOnceFromFirstAccount ==
    /\ (bill.outcome # "none" /\ bill.arg # <<>>
            /\ "screenshot phone_field_error.png" \notin Range(bill.steps))
          => /\ bill.outcome = "returned"
             /\ Len(payments) = 1
             /\ payments[1].amount = "500"
             /\ payments[1].fromAccountId = bill.arg[1]
             /\ Cardinality({i \in 1..Len(bill.steps) :
                                bill.steps[i] = "click Send Payment"}) = 1
    /\ (bill.outcome # "none" /\ bill.arg = <<>>)
          => bill.outcome = "returned" /\ bill.steps = <<>> /\ payments = <<>>

C20_Witness ==
    /\ pc = "paid"
    /\ Len(bill.arg) > 1
    /\ bill.arg[1] # bill.arg[Len(bill.arg)]
    /\ "press Tab" \in Range(bill.steps)
    /\ Len(payments) = 1

----------------------------------------------------------------------------
(* C17: when the login response is ok and its set-cookie header contains   *)
(* 'JSESSIONID=<v>' with a non-empty v, the session_id fixture returns     *)
(* exactly v, the text between 'JSESSIONID=' and the next ';'; it raises   *)
(* only when there is no cookie header or no JSESSIONID in it.             *)

\* The text between the first 'JSESSIONID=' of the header and the next ';'.
CookieValue(text) == Split(Split(text, JSessionIdEq)[2], Semicolon)[1]

HasSessionCookie(resp) ==
    /\ resp.set_cookie.present
    /\ Contains(JSessionIdEq, resp.set_cookie.text)
    /\ CookieValue(resp.set_cookie.text) # <<>>

C17_ReturnsSessionCookie ==
    /\ (pc = "session" /\ response.ok /\ HasSessionCookie(response))
          => /\ session.outcome = "returned"
             /\ session.value = CookieValue(response.set_cookie.text)
    /\ (pc = "session" /\ response.ok /\ session.outcome # "returned")
          => \/ ~response.set_cookie.present
             \/ ~Contains(JSessionIdEq, response.set_cookie.text)

----------------------------------------------------------------------------
(* Vocabulary of the credentials properties.                               *)

\* The file as load_demo_credentials finds it.
DemoFile == fs[DemoPath]

\* A member of the file is missing or empty: None, '' or 0.
EmptyMember(v) == v \in {NullVal, StrVal(<<>>), NumVal(0)}

\* The file exists, can be read, and is a JSON object whose username and
\* password are both there and not empty.
HoldsBoth(f) ==
    /\ f.exists /\ f.access
    /\ Load(f.text).ok
    /\ Load(f.text).val.t = "obj"
    /\ ~EmptyMember(Get(Load(f.text).val, UsernameKey))
    /\ ~EmptyMember(Get(Load(f.text).val, PasswordKey))

\* A str member as it is, a number in decimal digits.
TextOf(v) == IF v.t = "num" THEN Digits(v.n) ELSE v.s

\* The value is a dict of exactly username and password, both str.
IsCredentials(v) ==
    /\ v.t = "obj"
    /\ Len(v.fields) = 2
    /\ v.fields[1].k = UsernameKey /\ v.fields[1].v.t = "str"
    /\ v.fields[2].k = PasswordKey /\ v.fields[2].v.t = "str"

----------------------------------------------------------------------------
(* C18: load_demo_credentials never raises and always returns a dict with  *)
(* a non-empty string username and password: the values of the file, as    *)
(* strings, when credentials.json exists and holds both of them non-empty, *)
(* john/demo in every other case.                                          *)
C18_AlwaysValidCredentials ==
    (pc = "loaded" /\ loaded.by = "load_demo_credentials")
    => /\ loaded.outcome = "returned"
       /\ IsCredentials(loaded.value)
       /\ loaded.value.fields[1].v.s # <<>>
       /\ loaded.value.fields[2].v.s # <<>>
       /\ IF HoldsBoth(DemoFile)
          THEN LET held == Load(DemoFile.text).val
               IN  loaded.value = Credentials(TextOf(Get(held, UsernameKey)),
                                              TextOf(Get(held, PasswordKey)))
          ELSE loaded.value = Fallback

C18_Witness ==
    /\ pc = "loaded"
    /\ loaded.by = "load_demo_credentials"
    /\ DemoFile.exists /\ DemoFile.access
    /\ Load(DemoFile.text).ok
    /\ Load(DemoFile.text).val.t = "str"
    /\ loaded.value = Fallback

----------------------------------------------------------------------------
(* C19: after _save_credentials(u, p) with non-empty u and p,               *)
(* load_demo_credentials and both credentials fixtures return exactly u    *)
(* and p, those of the latest save when there were several.                *)
C19_SaveLoadRoundTrip ==
    (/\ pc = "loaded"
     /\ saved.outcome = "returned"
     /\ saved.username # <<>> /\ saved.password # <<>>)
    => /\ loaded.outcome = "returned"
       /\ loaded.value = Credentials(saved.username, saved.password)

C19_Witness ==
    /\ pc = "loaded"
    /\ saved.count = 2
    /\ saved.outcome = "returned"
    /\ DQ \in Range(saved.username)
    /\ loaded.by = "TestParaBankAPI.credentials"
    /\ loaded.value = Credentials(saved.username, saved.password)

----------------------------------------------------------------------------
(* C15: whenever register_user returns normally the page title at the end  *)
(* is the Accounts Overview title and the session is the one of the login  *)
(* with the username and password just registered; a re-login that lands   *)
(* elsewhere makes register_user fail with the AssertionError of expect.   *)
C15_ReturnsLoggedIn ==
    /\ reg.outcome = "returned"
          => /\ browser.title = AccountsOverviewTitle
             /\ browser.user = reg.username
             /\ reg.login = Login(reg.username, reg.password)
             /\ reg.login = Login(reg.form.username, reg.form.password)
    /\ ("login" \in Range(reg.steps) /\ browser.title # AccountsOverviewTitle)
          => reg.outcome = "AssertionError"

C15_Witness ==
    /\ reg.outcome = "returned"
    /\ "expect accounts_overview" \in Range(reg.steps)
    /\ browser.user = reg.username
    /\ reg.username # <<>>
    /\ saved.outcome = "returned"

----------------------------------------------------------------------------
(* C21: when the phone entry of pay_bill raises (the field was looked for  *)
(* and the number was neither filled nor typed), a screenshot is the last  *)
(* page operation, pay_bill returns normally, and the account is not       *)
(* selected, the amount not entered, Send Payment not clicked: no payment  *)
(* is sent.                                                                *)

\* The phone entry was begun and did not enter the number.
PhoneEntryFailed ==
    /\ "is_visible phoneNumber" \in Range(bill.steps)
    /\ "fill phoneNumber" \notin Range(bill.steps)
    /\ "type 1234567890" \notin Range(bill.steps)

C21_PhoneErrorStopsPayment ==
    PhoneEntryFailed
    => /\ bill.outcome = "returned"
       /\ bill.steps[Len(bill.steps)] = "screenshot phone_field_error.png"
       /\ Range(bill.steps) \cap Range(SendSteps) = {}
       /\ bill.sent = <<>>
       /\ payments = <<>>

C21_Witness ==
    /\ pc = "paid"
    /\ PhoneEntryFailed
    /\ Len(bill.arg) > 1
    /\ "fill payee.address.zipCode" \in Range(bill.steps)
    /\ payments = <<>>


----------------------------------------------------------------------------
(* test_complete_user_journey.                                             *)

\* The calls of the test in the order of its lines.
JourneyOrder ==
    <<"home", "register_user", "expect overview", "verify_homescreen_menu",
      "verify_emp_screen", "verify_customer_screen", "create_savings_account",
      "calculations", "transfer_funds", "pay_bill">>

IsPrefix(s, t) == Len(s) <= Len(t) /\ SubSeq(t, 1, Len(s)) = s

Begun(step) == step \in Range(journey.steps)

\* The test is over, passed or failed.
JourneyOver == pc \in {"passed", "failed"}

\* The assertion of line 57 passed.
HasAnAccount == Begun("calculations") /\ calc.outcome = "returned" /\ Len(calc.account_ids) > 0

C25_CreatesOneAccount ==
    /\ created = (IF Begun("create_savings_account") THEN 1 ELSE 0)
    /\ pc = "passed" => created = 1
    /\ xfer.recoveries = 0
    /\ Begun("transfer_funds") => Len(xfer.arg) >= 2 /\ xfer.used = xfer.arg

C25_Witness ==
    /\ pc = "pay_bill"
    /\ Begun("transfer_funds")
    /\ xfer.outcome = "returned"
    /\ Len(transfers) = 1
    /\ created = 1

\* C26: when the journey makes both a transfer and a bill payment, the
\* bill is paid from the account the transfer was drawn from, the first
\* identifier calculations returned: transfer_funds leaves the list of the
\* caller as it was given.
C26_PaysFromTransferAccount ==
    /\ Begun("transfer_funds") => journey.account_ids = calc.account_ids
    /\ transfers # <<>> /\ payments # <<>>
          => /\ Len(transfers) = 1 /\ Len(payments) = 1
             /\ payments[1].fromAccountId = transfers[1].fromAccountId
             /\ payments[1].fromAccountId = calc.account_ids[1]
             /\ bill.arg = xfer.arg

C26_Witness ==
    /\ pc = "passed"
    /\ transfers # <<>> /\ payments # <<>>
    /\ calc.account_ids[1] # calc.account_ids[2]
    /\ payments[1].fromAccountId = calc.account_ids[1]

----------------------------------------------------------------------------
(* Test cases running at the same time.                                    *)

\* What calculations gives on a page when nothing else runs.
AloneCalculations(page) ==
    IF page = <<>> THEN Result("TimeoutError", <<>>, <<>>, FALSE)
    ELSE calculations(page, rounding)

\* The transfer a test case submits on a page when nothing else runs.
AloneTransfers(page) ==
    LET ids == AloneCalculations(page).account_ids
    IN  IF Len(ids) >= 2 THEN <<Transfer(ids[1], ids[2])>> ELSE <<>>

----------------------------------------------------------------------------
(* The balance calculations leaves out of the sum.                         *)

\* The balance cells of the rows above the last one that are neither
\* 'Total' nor the no-value placeholder.
BalancesAbove(rows) ==
    LET above == SelectSeq(ButLast(rows), LAMBDA item :
                     Len(item) > 1 /\ item[2] \notin {TotalStr, NbspStr})
    IN  [i \in 1..Len(above) |-> above[i][2]]

\* The numbers of the cells that look numeric.
NumbersOf(cells) ==
    LET kept == SelectSeq(cells, LooksNumeric)
    IN  [i \in 1..Len(kept) |-> Float(Normalize(kept[i])).val]

\* C24: whenever calculations compares the sum with the total, the one
\* balance that middle_values[:-1] leaves out is the balance cell of the
\* last row, and every balance of a row above it that looks numeric is in
\* the sum.
C24_DropsLastRowBalance ==
    calc.compared
    => /\ middle_values(all_td_values) # <<>>
       /\ middle_values(all_td_values)
             = Append(BalancesAbove(all_td_values), LastRow(all_td_values)[2])
       /\ calc.numeric_values = NumbersOf(BalancesAbove(all_td_values))

C24_Witness ==
    /\ calc.compared
    /\ calc.outcome = "returned"
    /\ Len(all_td_values) = 3
    /\ Len(BalancesAbove(all_td_values)) = 1
    /\ Len(calc.numeric_values) = 1
    /\ LastRow(all_td_values)[1] # TotalStr

----------------------------------------------------------------------------
(* register_user and the credentials it generates.                         *)

\* register_user is over and nothing has been saved since.
Registered == reg.outcome # "none" /\ saved.count = 1

\* _save_credentials is called right after the click on Register and the
\* wait of line 82, before any of the checks.
SavedBeforeChecks ==
    /\ Len(reg.steps) > Len(FormSteps)
    /\ SubSeq(reg.steps, 1, Len(FormSteps) + 1) = FormSteps \o <<"save_credentials">>

\* The credentials file holds the dump of the registered credentials.
FileHoldsRegistered == fs[SavePath] = File(TRUE, TRUE, Dump(reg.username, reg.password))

\* C27 as stated: the generated credentials are saved after the click on
\* Register and before any success check, and the file is overwritten in
\* every run that gets past the submit step.
C27_AlwaysOverwritten ==
    Registered => SavedBeforeChecks /\ FileHoldsRegistered

\* C27 amended: in every run that gets past the submit step
\* _save_credentials is called with the generated credentials after the
\* click on Register and before any success check; the file is overwritten
\* whenever it can be opened for writing, whatever the checks and the
\* re-login give later, and a file that cannot be opened ends register_user
\* with the error of open() before any check.  No missing success
\* indicator ends register_user: the Log Out click is always reached.
C27_SavesBeforeChecks ==
    Registered
    => /\ SavedBeforeChecks
       /\ saved.username = reg.username /\ saved.password = reg.password
       /\ saved.outcome = "returned"
             => FileHoldsRegistered /\ "click logout" \in Range(reg.steps)
       /\ saved.outcome # "returned"
             => /\ saved.outcome = "PermissionError"
                /\ reg.outcome = "PermissionError"
                /\ fs[SavePath] = NoAccess
                /\ Len(reg.steps) = Len(FormSteps) + 1

C27_Witness ==
    /\ Registered
    /\ reg.outcome = "AssertionError"
    /\ "expect accounts_overview" \in Range(reg.steps)
    /\ "login" \in Range(reg.steps)
    /\ FileHoldsRegistered

\* C28: within one register_user call the username and the password are
\* generated once: what is typed into the form (the password and its
\* confirmation alike), what is written to credentials.json and what the
\* re-login uses are the same values.
C28_OneUsernameAndPassword ==
    Registered
    => /\ generated.called /\ generated.username = reg.username
       /\ reg.form = Form(reg.username, reg.password, reg.password)
       /\ saved.username = reg.form.username /\ saved.password = reg.form.password
       /\ saved.outcome = "returned"
             => /\ Load(fs[SavePath].text).ok
                /\ Load(fs[SavePath].text).val
                     = Credentials(reg.form.username, reg.form.confirm)
       /\ "login" \in Range(reg.steps)
             => reg.login = Login(reg.form.username, reg.form.password)

C28_Witness ==
    /\ Registered
    /\ reg.outcome = "returned"
    /\ generated.hash < 0
    /\ reg.login.username = saved.username
    /\ reg.form.confirm = DefaultPassword

\* The number in a generated username: the four characters before '@'.
NumberIn(username) ==
    DigitsValue(SubSeq(username, Len(username) - Len(AtGmail) - 3,
                       Len(username) - Len(AtGmail)))

\* C29: for every hash h, negative ones included, the username is a word,
\* a number n and '@gmail.com', where n is in 1000..9999, n - 1000 is h
\* modulo 9000 and the word is the one of index (n - 1000) mod 6.
C29_UsernameFromHash ==
    generated.called
    => LET n == NumberIn(generated.username)
       IN  /\ n \in 1000..9999
           /\ (generated.hash - (n - 1000)) % 9000 = 0
           /\ generated.username = words[((n - 1000) % 6) + 1] \o Digits(n) \o AtGmail

C29_Witness ==
    /\ pc = "generated"
    /\ generated.hash < -9000
    /\ generated.username = words[6] \o Digits(9999) \o AtGmail

====
